---- MODULE Spec2Model ----
(***************************************************************************)
(* The AI flashcard workflow of AIFlashcardsPage.svelte together with the  *)
(* SourceSelector and CardReview components that drive it: the step state  *)
(* machine, the bridge invocation with its window-level completion         *)
(* callback and 120 second timer, the session RPCs and the import RPC.     *)
(***************************************************************************)
EXTENDS Integers, Sequences, FiniteSets, TLC

\* ------------------------------------------------------------------ bounds
MaxInvocations == 2   \* generation invocations started in one behaviour
MaxCards == 1         \* cards returned by one generation
MaxRpcs == 2          \* backend RPCs in flight at one time
MaxLoadedCards == 2   \* cards of the persisted session that is resumed
MaxSaves == 1         \* saveSession RPCs in flight at one time
MaxErrors == 1        \* cards of one import that the store reports as errors

\* --------------------------------------------------------- value universes

null == "<null>"

\* messages; the first three are literals of the page and of JSON.parse, the
\* others come from the backend
NothingApproved == "No cards have been approved yet."
TimedOut == "Generation timed out after 2 minutes"
NoText == "Please provide text to generate flashcards from."
ParseError == "Unexpected end of JSON input"
ImmediateError == "OpenAI API key not configured"
GenerationError == "OpenAI API error"
SaveError == "Failed to save session"
ClearError == "Failed to clear session"
ImportError == "Deck not found"
undefined == "<undefined>"
NoResult == [imported |-> -1, duplicates |-> -1]

\* JavaScript truthiness of a string-valued field that may be missing
Truthy(s) == s \notin {undefined, null, ""}

\* what a user puts into the source form before pressing Generate: nothing,
\* whitespace only, a plain text without a name, and a named text padded
\* with whitespace that was fetched from a url
Form(text, name, url) == [text |-> text, name |-> name, url |-> url]

Forms ==
    {Form(<<>>, "", ""),
     Form(<<" ">>, "doc", ""),
     Form(<<"a">>, "", ""),
     Form(<<" ", "a", " ">>, "doc", "u")}

\* String.prototype.trim
IsWhiteSpace(c) == c = " "

RECURSIVE TrimStart(_)
TrimStart(t) ==
    IF t = <<>> THEN <<>>
    ELSE IF IsWhiteSpace(Head(t)) THEN TrimStart(Tail(t)) ELSE t

RECURSIVE TrimEnd(_)
TrimEnd(t) ==
    IF t = <<>> THEN <<>>
    ELSE IF IsWhiteSpace(t[Len(t)]) THEN TrimEnd(SubSeq(t, 1, Len(t) - 1)) ELSE t

\* the test of the text without the call of trim
noTrim(t) == t

trim(t) == TrimEnd(TrimStart(t))

\* ------------------------------------------------------------------- cards
Pending == 0
Approved == 1
Rejected == 2

\* SimpleCard; the id names the generation task and the position in it
SimpleCard(task, k, st) ==
    [id |-> <<task, k>>, cardType |-> 0, front |-> k, back |-> k,
     suggestedTags |-> <<>>, status |-> st]

\* the card sequence a backend generation task delivers: n fresh cards
GeneratedCards(task, n) == [k \in 1..n |-> SimpleCard(task, k, Pending)]

CountStatus(cs, st) == Len(SelectSeq(cs, LAMBDA c : c.status = st))

\* ------------------------------------------------------------------- state
VARIABLES
    currentStep, cards, sourceName, sourceText, sourceUrl, error, importResult,
    pendingGenerateResolve, pendingGenerateReject,
    textInput, selectorSourceName, urlInput, selectorError,
    invocations, rpcs, snapshot, store,
    windowCallback, other

pageVars == <<currentStep, cards, sourceName, sourceText, sourceUrl, error, importResult>>
slotVars == <<pendingGenerateResolve, pendingGenerateReject>>
selectorVars == <<textInput, selectorSourceName, urlInput, selectorError>>
backendVars == <<snapshot, store>>
\* window._aiFlashcardsOnGenerate (the page instance whose closure it holds)
\* and a second instance of the page in the same window
windowVars == <<windowCallback, other>>
vars == <<pageVars, slotVars, selectorVars, invocations, rpcs, backendVars, windowVars>>

\* an approved count that counts the Pending cards
approvedCountOfPending == CountStatus(cards, Pending)

approvedCount == CountStatus(cards, Approved)
rejectedCount == CountStatus(cards, Rejected)
pendingCount == CountStatus(cards, Pending)

Steps == {"source", "generating", "review", "importing", "done"}

NoCards == <<>>

\* the object passed to window._aiFlashcardsOnGenerate: {cards?, error?}
CallbackResult(err, hasCards, cs) == [error |-> err, hasCards |-> hasCards, cards |-> cs]

NoOutcome == CallbackResult(undefined, FALSE, NoCards)

\* a request to a backend RPC that has been issued and not yet answered
Rpc(kind, name, text, cs, awaitedBy) ==
    [kind |-> kind, sourceName |-> name, sourceText |-> text, cards |-> cs,
     awaitedBy |-> awaitedBy]

\* the persisted session file
Session(name, text, cs) == [sourceName |-> name, sourceText |-> text, cards |-> cs]

\* a second page instance: whether it is mounted, whether its own slot
\* (its pendingGenerateResolve / pendingGenerateReject) is set, the promise of
\* its invocation and the state of the backend task it asked for
Other(mounted, slot, promise, backend) ==
    [mounted |-> mounted, slot |-> slot, promise |-> promise, backend |-> backend]

NoOther == Other(FALSE, FALSE, "none", "none")

\* a further saveSession can be issued within the bounds
CanSave ==
    /\ Len(rpcs) < MaxRpcs
    /\ Len(SelectSeq(rpcs, LAMBDA r : r.kind = "save")) < MaxSaves

\* --------------------------------------------------------- source selector
\* The SourceSelector exists only while currentStep = "source"; it is created
\* with the page's sourceText, sourceName and sourceUrl as its initial values.
SelectorAfter(stepBefore, stepAfter, text, name, url) ==
    IF stepAfter # "source"
    THEN /\ textInput' = <<>>
         /\ selectorSourceName' = ""
         /\ urlInput' = ""
         /\ selectorError' = null
    ELSE IF stepBefore # "source"
    THEN /\ textInput' = text
         /\ selectorSourceName' = name
         /\ urlInput' = url
         /\ selectorError' = null
    ELSE UNCHANGED selectorVars

\* ------------------------------------------------------------------- start
\* session prop of the page: the result of load()
LoadSessionResponses ==
    {[ok |-> FALSE],
     [ok |-> TRUE, hasSession |-> FALSE, cards |-> NoCards,
      sourceName |-> "", sourceText |-> <<>>]}
    \cup {[ok |-> TRUE, hasSession |-> TRUE,
           cards |-> [k \in 1..n |-> SimpleCard(0, k, st[k])],
           sourceName |-> "doc", sourceText |-> <<"a">>]
          : n \in {MaxLoadedCards},
            st \in {[k \in 1..MaxLoadedCards |-> IF k = 1 THEN Approved ELSE Rejected]}}

\* a load that hands every card over as Pending
loadDropsStatus(response) ==
    IF response.ok
    THEN [hasSession |-> response.hasSession,
          cards |-> [k \in DOMAIN response.cards |->
                        [response.cards[k] EXCEPT !.status = Pending]],
          sourceName |-> response.sourceName,
          sourceText |-> response.sourceText]
    ELSE [hasSession |-> FALSE, cards |-> NoCards, sourceName |-> "", sourceText |-> <<>>]

\* a load that loses the source text
loadDropsSourceText(response) ==
    IF response.ok
    THEN [hasSession |-> response.hasSession,
          cards |-> response.cards,
          sourceName |-> response.sourceName,
          sourceText |-> <<>>]
    ELSE [hasSession |-> FALSE, cards |-> NoCards, sourceName |-> "", sourceText |-> <<>>]

\* load(): a failed loadSession is caught and becomes null, null becomes the
\* default session; a response is copied card by card, field by field
load(response) ==
    IF response.ok
    THEN [hasSession |-> response.hasSession,
          cards |-> [k \in DOMAIN response.cards |->
                        [id |-> response.cards[k].id,
                         cardType |-> response.cards[k].cardType,
                         front |-> response.cards[k].front,
                         back |-> response.cards[k].back,
                         suggestedTags |-> response.cards[k].suggestedTags,
                         status |-> response.cards[k].status]],
          sourceName |-> response.sourceName,
          sourceText |-> response.sourceText]
    ELSE [hasSession |-> FALSE, cards |-> NoCards, sourceName |-> "", sourceText |-> <<>>]

\* the backend's loadSession on a session file: the stored session with
\* hasSession = true, or hasSession = false and no cards when there is none
loadSession(snap) ==
    IF snap = <<>>
    THEN [ok |-> TRUE, hasSession |-> FALSE, cards |-> NoCards,
          sourceName |-> "", sourceText |-> <<>>]
    ELSE [ok |-> TRUE, hasSession |-> TRUE, cards |-> snap[1].cards,
          sourceName |-> snap[1].sourceName, sourceText |-> snap[1].sourceText]

LoadedSessions == {load(response) : response \in LoadSessionResponses}

Init ==
    \E session \in LoadedSessions :
        /\ currentStep = (IF session.hasSession THEN "review" ELSE "source")
        /\ cards = (IF session.hasSession THEN session.cards ELSE NoCards)
        /\ sourceName = session.sourceName
        /\ sourceText = session.sourceText
        /\ sourceUrl = ""
        /\ error = null
        /\ importResult = NoResult
        /\ pendingGenerateResolve = 0
        /\ pendingGenerateReject = 0
        /\ textInput = <<>>
        /\ selectorSourceName = ""
        /\ urlInput = ""
        /\ selectorError = null
        /\ invocations = <<>>
        /\ rpcs = <<>>
        /\ snapshot = (IF session.hasSession
                       THEN <<Session(session.sourceName, session.sourceText, session.cards)>>
                       ELSE <<>>)
        /\ store = {}
        /\ windowCallback = 1
        /\ other = NoOther

\* ------------------------------------------------- generation: the page
\* One invocation of generateFlashcardsViaBackend: the arguments its closures
\* hold, its promise, its timer and the backend's work on its command.
Invocation(text, name, promise, timer, backend) ==
    [text |-> text, name |-> name, promise |-> promise, timer |-> timer,
     backend |-> backend]

\* An invocation whose promise is settled, whose timer has fired and whose
\* backend work is over can do nothing any more; what it held is dropped.
Finished(inv) ==
    /\ inv.promise # "pending"
    /\ inv.timer = "fired"
    /\ inv.backend \in {"refused", "completed"}

Retire(invs) ==
    [i \in 1..Len(invs) |->
        IF Finished(invs[i])
        THEN Invocation(<<>>, "", invs[i].promise, "fired", invs[i].backend)
        ELSE invs[i]]

\* GenerateContinuation with `cards = generatedCards` left out
GenerateContinuationKeepsCards(j, ok, cs, message, invs) ==
    IF j = 0 \/ invs[j].promise # "pending"
    THEN /\ invocations' = Retire(invs)
         /\ UNCHANGED <<pageVars, rpcs, selectorVars>>
    ELSE IF ok
    THEN /\ invocations' = Retire([invs EXCEPT ![j].promise = "fulfilled"])
         /\ currentStep' = "review"
         /\ rpcs' = Append(rpcs, Rpc("save", invs[j].name, invs[j].text, cards, "generate"))
         /\ UNCHANGED <<cards, sourceName, sourceText, sourceUrl, error, importResult>>
         /\ SelectorAfter(currentStep, "review", sourceText, sourceName, sourceUrl)
    ELSE /\ invocations' = Retire([invs EXCEPT ![j].promise = "rejected"])
         /\ error' = message
         /\ currentStep' = "source"
         /\ UNCHANGED <<cards, sourceName, sourceText, sourceUrl, importResult, rpcs>>
         /\ SelectorAfter(currentStep, "source", sourceText, sourceName, sourceUrl)

\* GenerateContinuation whose catch block also empties the source fields
GenerateContinuationResetsSource(j, ok, cs, message, invs) ==
    IF j = 0 \/ invs[j].promise # "pending"
    THEN /\ invocations' = Retire(invs)
         /\ UNCHANGED <<pageVars, rpcs, selectorVars>>
    ELSE IF ok
    THEN /\ invocations' = Retire([invs EXCEPT ![j].promise = "fulfilled"])
         /\ cards' = cs
         /\ currentStep' = "review"
         /\ rpcs' = Append(rpcs, Rpc("save", invs[j].name, invs[j].text, cs, "generate"))
         /\ UNCHANGED <<sourceName, sourceText, sourceUrl, error, importResult>>
         /\ SelectorAfter(currentStep, "review", sourceText, sourceName, sourceUrl)
    ELSE /\ invocations' = Retire([invs EXCEPT ![j].promise = "rejected"])
         /\ error' = message
         /\ currentStep' = "source"
         /\ sourceText' = <<>>
         /\ sourceName' = ""
         /\ UNCHANGED <<cards, sourceUrl, importResult, rpcs>>
         /\ SelectorAfter(currentStep, "source", sourceText', sourceName', sourceUrl)

\* handleGenerate after `await generateFlashcardsViaBackend(text, name)`:
\* the try branch on fulfilment, the catch branch on rejection.  It runs
\* as a microtask of the task that settled the promise, so it is part of the
\* settling step.  j = 0 is the empty slot (`?.` on null); a promise that is
\* already settled ignores resolve and reject.
GenerateContinuation(j, ok, cs, message, invs) ==
    IF j = 0 \/ invs[j].promise # "pending"
    THEN /\ invocations' = Retire(invs)
         /\ UNCHANGED <<pageVars, rpcs, selectorVars>>
    ELSE IF ok
    THEN /\ invocations' = Retire([invs EXCEPT ![j].promise = "fulfilled"])
         /\ cards' = cs
         /\ currentStep' = "review"
         /\ rpcs' = Append(rpcs, Rpc("save", invs[j].name, invs[j].text, cs, "generate"))
         /\ UNCHANGED <<sourceName, sourceText, sourceUrl, error, importResult>>
         /\ SelectorAfter(currentStep, "review", sourceText, sourceName, sourceUrl)
    ELSE /\ invocations' = Retire([invs EXCEPT ![j].promise = "rejected"])
         /\ error' = message
         /\ currentStep' = "source"
         /\ UNCHANGED <<cards, sourceName, sourceText, sourceUrl, importResult, rpcs>>
         /\ SelectorAfter(currentStep, "source", sourceText, sourceName, sourceUrl)

\* handleGenerate with `currentStep = "generating"` left out
handleGenerateKeepsStep(text, name, url) ==
    LET id == Len(invocations) + 1
    IN /\ sourceText' = text
       /\ sourceName' = name
       /\ sourceUrl' = url
       /\ error' = null
       /\ pendingGenerateResolve' = id
       /\ pendingGenerateReject' = id
       /\ invocations' = Append(invocations,
              Invocation(text, name, "pending", "armed", "sent"))
       /\ UNCHANGED <<currentStep, selectorVars, cards, importResult, rpcs, backendVars, windowVars>>

\* handleGenerate up to the await, with the executor of the promise that
\* generateFlashcardsViaBackend returns: fill the slot, send the bridge
\* command, arm the timer.
handleGenerate(text, name, url) ==
    LET id == Len(invocations) + 1
    IN /\ sourceText' = text
       /\ sourceName' = name
       /\ sourceUrl' = url
       /\ currentStep' = "generating"
       /\ error' = null
       /\ pendingGenerateResolve' = id
       /\ pendingGenerateReject' = id
       /\ invocations' = Append(invocations,
              Invocation(text, name, "pending", "armed", "sent"))
       /\ SelectorAfter(currentStep, "generating", text, name, url)
       /\ UNCHANGED <<cards, importResult, rpcs, backendVars, windowVars>>

\* SourceSelector.handleGenerate, the handler of the Generate button, taken
\* together with the edits (bind:value) that put text, name and url into the
\* form before the click
GenerateRefused(text, name, url) ==
    /\ currentStep = "source"
    /\ trim(text) = <<>>
    /\ textInput' = text
    /\ selectorSourceName' = name
    /\ urlInput' = url
    /\ selectorError' = NoText
    /\ UNCHANGED <<pageVars, slotVars, windowVars, invocations, rpcs, backendVars>>

GenerateDispatched(text, name, url) ==
    /\ currentStep = "source"
    /\ trim(text) # <<>>
    /\ Len(invocations) < MaxInvocations
    /\ handleGenerate(text, IF name = "" THEN "Untitled" ELSE name, url)

SourceSelectorHandleGenerate ==
    \E form \in Forms :
        \/ GenerateRefused(form.text, form.name, form.url)
        \/ GenerateDispatched(form.text, form.name, form.url)

\* ---------------------------------------------- generation: bridge adapter
\* the response callback of bridgeCommand: an immediate error envelope
BridgeResponseError(i) ==
    /\ invocations[i].backend = "sent"
    /\ pendingGenerateResolve' = 0
    /\ pendingGenerateReject' = 0
    /\ GenerateContinuation(i, FALSE, NoCards, ImmediateError,
                            [invocations EXCEPT ![i].backend = "refused"])
    /\ UNCHANGED <<backendVars, windowVars>>

\* the response callback of bridgeCommand: JSON.parse throws
BridgeResponseUnparsable(i) ==
    /\ invocations[i].backend = "sent"
    /\ pendingGenerateResolve' = 0
    /\ pendingGenerateReject' = 0
    /\ GenerateContinuation(i, FALSE, NoCards, ParseError,
                            [invocations EXCEPT ![i].backend = "refused"])
    /\ UNCHANGED <<backendVars, windowVars>>

\* the response callback of bridgeCommand: {status: "generating"}; the
\* backend has started the background task that will call the callback
BridgeResponseGenerating(i) ==
    /\ invocations[i].backend = "sent"
    /\ invocations' = [invocations EXCEPT ![i].backend = "running"]
    /\ UNCHANGED <<pageVars, slotVars, windowVars, selectorVars, rpcs, backendVars>>

\* responses come back in the order in which the commands were sent
BridgeResponse ==
    \E i \in 1..Len(invocations) :
      /\ \A h \in 1..(i - 1) : invocations[h].backend # "sent"
      /\
        \/ BridgeResponseError(i)
        \/ BridgeResponseUnparsable(i)
        \/ BridgeResponseGenerating(i)

\* what the background task of request i can pass to the callback
CallbackResults(i) ==
    {CallbackResult(GenerationError, FALSE, NoCards), NoOutcome}
    \cup {CallbackResult(undefined, TRUE, GeneratedCards(i, n)) : n \in 0..MaxCards}

\* a callback that takes a result without cards for a failure
aiFlashcardsOnGenerateNeedsCards(i, result) ==
    LET failed == Truthy(result.error) \/ ~result.hasCards
        target == IF failed THEN pendingGenerateReject ELSE pendingGenerateResolve
    IN /\ pendingGenerateResolve' = 0
       /\ pendingGenerateReject' = 0
       /\ GenerateContinuation(target, ~failed, result.cards, GenerationError,
                               [invocations EXCEPT ![i].backend = "completed"])
       /\ UNCHANGED <<backendVars, windowVars>>

\* window._aiFlashcardsOnGenerate(result), called when the background task
\* of request i completes
aiFlashcardsOnGenerate(i, result) ==
    LET target == IF Truthy(result.error) THEN pendingGenerateReject
                  ELSE pendingGenerateResolve
    IN /\ pendingGenerateResolve' = 0
       /\ pendingGenerateReject' = 0
       /\ GenerateContinuation(target, ~Truthy(result.error),
                               IF result.hasCards THEN result.cards ELSE NoCards,
                               result.error,
                               [invocations EXCEPT ![i].backend = "completed"])
       /\ UNCHANGED <<backendVars, windowVars>>

OnGenerate ==
    \E i \in 1..Len(invocations) :
        /\ windowCallback = 1
        /\ invocations[i].backend = "running"
        /\ CanSave
        /\ \E result \in CallbackResults(i) : aiFlashcardsOnGenerate(i, result)

\* TimeoutHandler that rejects without emptying the slot
TimeoutHandlerKeepsSlot(i) ==
    /\ invocations[i].timer = "armed"
    /\ invocations[i].backend # "sent"
    /\ IF pendingGenerateResolve # 0
       THEN /\ UNCHANGED <<slotVars, windowVars>>
            /\ GenerateContinuation(i, FALSE, NoCards, TimedOut,
                                    [invocations EXCEPT ![i].timer = "fired"])
       ELSE /\ invocations' = Retire([invocations EXCEPT ![i].timer = "fired"])
            /\ UNCHANGED <<pageVars, slotVars, windowVars, selectorVars, rpcs>>
    /\ UNCHANGED <<backendVars, windowVars>>

\* the setTimeout handler of invocation i; equal delays expire in the
\* order in which the timers were armed, and the response to the bridge
\* command arrives well within the delay
TimeoutHandler(i) ==
    /\ invocations[i].timer = "armed"
    /\ invocations[i].backend # "sent"
    /\ \A h \in 1..(i - 1) : invocations[h].timer = "fired"
    /\ IF pendingGenerateResolve # 0
       THEN /\ pendingGenerateResolve' = 0
            /\ pendingGenerateReject' = 0
            /\ GenerateContinuation(i, FALSE, NoCards, TimedOut,
                                    [invocations EXCEPT ![i].timer = "fired"])
       ELSE /\ invocations' = Retire([invocations EXCEPT ![i].timer = "fired"])
            /\ UNCHANGED <<pageVars, slotVars, windowVars, selectorVars, rpcs>>
    /\ UNCHANGED <<backendVars, windowVars>>

Timeout == \E i \in 1..Len(invocations) : TimeoutHandler(i)

\* ------------------------------------------- a second page in the window
\* onMount of a second instance: it assigns window._aiFlashcardsOnGenerate,
\* which from then on is the closure over the second instance's slot
OtherMount ==
    /\ ~other.mounted
    /\ other' = [other EXCEPT !.mounted = TRUE]
    /\ windowCallback' = 2
    /\ UNCHANGED <<pageVars, slotVars, selectorVars, invocations, rpcs, backendVars>>

\* the second instance starts a generation that the bridge acknowledges: its
\* own slot is set and its backend task runs
OtherGenerate ==
    /\ other.mounted
    /\ other.promise = "none"
    /\ other' = Other(TRUE, TRUE, "pending", "running")
    /\ UNCHANGED <<pageVars, slotVars, selectorVars, invocations, rpcs, backendVars,
                   windowCallback>>

\* the body of the second instance's callback: settle through its own slot
\* if it is set, then empty it
OtherCallback(o, isError) ==
    [o EXCEPT !.slot = FALSE,
              !.promise = IF o.slot /\ o.promise = "pending"
                          THEN (IF isError THEN "rejected" ELSE "fulfilled")
                          ELSE o.promise]

\* the background task of this page's request i completes while
\* window._aiFlashcardsOnGenerate is the second instance's callback
OnGenerateAtOther ==
    \E i \in 1..Len(invocations) :
        /\ windowCallback = 2
        /\ invocations[i].backend = "running"
        /\ \E result \in CallbackResults(i) :
               other' = OtherCallback(other, Truthy(result.error))
        /\ invocations' = Retire([invocations EXCEPT ![i].backend = "completed"])
        /\ UNCHANGED <<pageVars, slotVars, selectorVars, rpcs, backendVars, windowCallback>>

\* the background task of the second instance's request completes
OtherOnGenerate ==
    /\ windowCallback = 2
    /\ other.backend = "running"
    /\ \E isError \in BOOLEAN :
           other' = [OtherCallback(other, isError) EXCEPT !.backend = "completed"]
    /\ UNCHANGED <<pageVars, slotVars, selectorVars, invocations, rpcs, backendVars,
                   windowCallback>>

\* ------------------------------------------------------------------ review
\* handleCardUpdate that saves the cards as they were before the update
handleCardUpdateSavesOld(cardId, status) ==
    /\ cards' = [k \in 1..Len(cards) |->
                    IF cards[k].id = cardId THEN [cards[k] EXCEPT !.status = status]
                    ELSE cards[k]]
    /\ rpcs' = Append(rpcs, Rpc("save", sourceName, sourceText, cards, "none"))
    /\ UNCHANGED <<currentStep, sourceName, sourceText, sourceUrl, error, importResult,
                   slotVars, windowVars, selectorVars, invocations, backendVars>>

\* cards.map((card) => (card.id === cardId ? { ...card, status } : card))
mapStatus(cs, cardId, status) ==
    [k \in 1..Len(cs) |->
        IF cs[k].id = cardId THEN [cs[k] EXCEPT !.status = status] ELSE cs[k]]

\* handleCardUpdate that gives the new status to every card
handleCardUpdateSetsAll(cardId, status) ==
    /\ cards' = [k \in 1..Len(cards) |-> [cards[k] EXCEPT !.status = status]]
    /\ rpcs' = Append(rpcs, Rpc("save", sourceName, sourceText, cards', "none"))
    /\ UNCHANGED <<currentStep, sourceName, sourceText, sourceUrl, error, importResult,
                   slotVars, windowVars, selectorVars, invocations, backendVars>>

\* handleCardUpdate(cardId, status)
handleCardUpdate(cardId, status) ==
    /\ cards' = mapStatus(cards, cardId, status)
    /\ rpcs' = Append(rpcs, Rpc("save", sourceName, sourceText, cards', "none"))
    /\ UNCHANGED <<currentStep, sourceName, sourceText, sourceUrl, error, importResult,
                   slotVars, windowVars, selectorVars, invocations, backendVars>>

\* CardReview: approve and reject are rendered for a Pending card, reset for
\* any other card
CardApprove ==
    /\ currentStep = "review"
    /\ CanSave
    /\ \E k \in 1..Len(cards) :
        /\ cards[k].status = 0
        /\ handleCardUpdate(cards[k].id, 1)

\* a reject control that is offered for the Approved cards as well
CardRejectOfApproved ==
    /\ currentStep = "review"
    /\ CanSave
    /\ \E k \in 1..Len(cards) :
        /\ cards[k].status \in {0, 1}
        /\ handleCardUpdate(cards[k].id, 2)

\* a reject wiring that hands handleCardUpdate a fourth status value
CardRejectSetsThree ==
    /\ currentStep = "review"
    /\ CanSave
    /\ \E k \in 1..Len(cards) :
        /\ cards[k].status = 0
        /\ handleCardUpdate(cards[k].id, 3)

CardReject ==
    /\ currentStep = "review"
    /\ CanSave
    /\ \E k \in 1..Len(cards) :
        /\ cards[k].status = 0
        /\ handleCardUpdate(cards[k].id, 2)

CardReset ==
    /\ currentStep = "review"
    /\ CanSave
    /\ \E k \in 1..Len(cards) :
        /\ cards[k].status # 0
        /\ handleCardUpdate(cards[k].id, 0)

\* approveAll that leaves the Rejected cards alone
approveAllSkipsRejected ==
    /\ currentStep = "review"
    /\ CanSave
    /\ cards' = [k \in 1..Len(cards) |->
                    IF cards[k].status = 2 THEN cards[k]
                    ELSE [cards[k] EXCEPT !.status = 1]]
    /\ rpcs' = Append(rpcs, Rpc("save", sourceName, sourceText, cards', "none"))
    /\ UNCHANGED <<currentStep, sourceName, sourceText, sourceUrl, error, importResult,
                   slotVars, windowVars, selectorVars, invocations, backendVars>>

approveAll ==
    /\ currentStep = "review"
    /\ CanSave
    /\ cards' = [k \in 1..Len(cards) |-> [cards[k] EXCEPT !.status = 1]]
    /\ rpcs' = Append(rpcs, Rpc("save", sourceName, sourceText, cards', "none"))
    /\ UNCHANGED <<currentStep, sourceName, sourceText, sourceUrl, error, importResult,
                   slotVars, windowVars, selectorVars, invocations, backendVars>>

rejectAll ==
    /\ currentStep = "review"
    /\ CanSave
    /\ cards' = [k \in 1..Len(cards) |-> [cards[k] EXCEPT !.status = 2]]
    /\ rpcs' = Append(rpcs, Rpc("save", sourceName, sourceText, cards', "none"))
    /\ UNCHANGED <<currentStep, sourceName, sourceText, sourceUrl, error, importResult,
                   slotVars, windowVars, selectorVars, invocations, backendVars>>

\* ------------------------------------------------------------------ import
\* handleImport up to the await of importApprovedCards
\* ImportRefused without the return: the commit goes ahead with no card
ImportRefusedSendsRpc ==
    /\ currentStep = "review"
    /\ approvedCount = 0
    /\ Len(rpcs) < MaxRpcs
    /\ currentStep' = "importing"
    /\ error' = NothingApproved
    /\ rpcs' = Append(rpcs, Rpc("import", "", <<>>, NoCards, "import"))
    /\ UNCHANGED <<cards, sourceName, sourceText, sourceUrl, importResult,
                   slotVars, windowVars, selectorVars, invocations, backendVars>>

ImportRefused ==
    /\ currentStep = "review"
    /\ approvedCount = 0
    /\ error' = NothingApproved
    /\ UNCHANGED <<currentStep, cards, sourceName, sourceText, sourceUrl, importResult,
                   slotVars, windowVars, selectorVars, invocations, rpcs, backendVars>>

\* ImportStarted without the filter on the status
ImportStartedSendsAll ==
    /\ currentStep = "review"
    /\ approvedCount # 0
    /\ Len(rpcs) < MaxRpcs
    /\ currentStep' = "importing"
    /\ error' = null
    /\ rpcs' = Append(rpcs, Rpc("import", "", <<>>, cards, "import"))
    /\ UNCHANGED <<cards, sourceName, sourceText, sourceUrl, importResult,
                   slotVars, windowVars, selectorVars, invocations, backendVars>>

ImportStarted ==
    /\ currentStep = "review"
    /\ approvedCount # 0
    /\ Len(rpcs) < MaxRpcs
    /\ currentStep' = "importing"
    /\ error' = null
    /\ rpcs' = Append(rpcs, Rpc("import", "", <<>>,
                                SelectSeq(cards, LAMBDA c : c.status = 1), "import"))
    /\ UNCHANGED <<cards, sourceName, sourceText, sourceUrl, importResult,
                   slotVars, windowVars, selectorVars, invocations, backendVars>>

handleImport == ImportRefused \/ ImportStarted

\* ------------------------------------------------------------- new session
\* handleNewSession, behind the header's New Session button (shown when
\* currentStep is not "source") and the done view's Start New Generation
handleNewSession ==
    /\ currentStep # "source"
    /\ Len(rpcs) < MaxRpcs
    /\ cards' = NoCards
    /\ sourceName' = ""
    /\ sourceText' = <<>>
    /\ error' = null
    /\ importResult' = NoResult
    /\ currentStep' = "source"
    /\ rpcs' = Append(rpcs, Rpc("clear", "", <<>>, NoCards, "none"))
    /\ SelectorAfter(currentStep, "source", sourceText', sourceName', sourceUrl)
    /\ UNCHANGED <<sourceUrl, slotVars, windowVars, invocations, backendVars>>

\* ---------------------------------------------------------------- backend
\* The backend answers the RPCs in the order in which they were issued.
\* the store's duplicate policy over the approved cards of one import
RECURSIVE ImportInto(_, _)
ImportInto(cs, st) ==
    IF cs = <<>> THEN [store |-> st, importedCount |-> 0, duplicateCount |-> 0]
    ELSE LET c == Head(cs)
             dup == c.front \in st
             rest == ImportInto(Tail(cs), st \cup {c.front})
         IN [store |-> rest.store,
             importedCount |-> rest.importedCount + (IF dup THEN 0 ELSE 1),
             duplicateCount |-> rest.duplicateCount + (IF dup THEN 1 ELSE 0)]

\* save(session) overwrites any prior snapshot; clear() deletes it
SavedSnapshot(rpc) == <<Session(rpc.sourceName, rpc.sourceText, rpc.cards)>>

ClearedSnapshot == <<>>

\* saveSession answered; awaited only by handleGenerate, whose catch block
\* also covers this await
SaveSessionOk ==
    /\ rpcs # <<>> /\ Head(rpcs).kind = "save"
    /\ snapshot' = SavedSnapshot(Head(rpcs))
    /\ rpcs' = Tail(rpcs)
    /\ UNCHANGED <<pageVars, slotVars, windowVars, selectorVars, invocations, store>>

SaveSessionFailed ==
    /\ rpcs # <<>> /\ Head(rpcs).kind = "save"
    /\ rpcs' = Tail(rpcs)
    /\ IF Head(rpcs).awaitedBy = "generate"
       THEN /\ error' = SaveError
            /\ currentStep' = "source"
            /\ SelectorAfter(currentStep, "source", sourceText, sourceName, sourceUrl)
            /\ UNCHANGED <<cards, sourceName, sourceText, sourceUrl, importResult>>
       ELSE UNCHANGED <<pageVars, selectorVars>>
    /\ UNCHANGED <<slotVars, windowVars, invocations, backendVars>>

\* clearSession answered; awaited by handleImport, not by handleNewSession
ClearSessionOk ==
    /\ rpcs # <<>> /\ Head(rpcs).kind = "clear"
    /\ snapshot' = ClearedSnapshot
    /\ rpcs' = Tail(rpcs)
    /\ IF Head(rpcs).awaitedBy = "import"
       THEN /\ currentStep' = "done"
            /\ SelectorAfter(currentStep, "done", sourceText, sourceName, sourceUrl)
            /\ UNCHANGED <<cards, sourceName, sourceText, sourceUrl, error, importResult>>
       ELSE UNCHANGED <<pageVars, selectorVars>>
    /\ UNCHANGED <<slotVars, windowVars, invocations, store>>

ClearSessionFailed ==
    /\ rpcs # <<>> /\ Head(rpcs).kind = "clear"
    /\ rpcs' = Tail(rpcs)
    /\ IF Head(rpcs).awaitedBy = "import"
       THEN /\ error' = ClearError
            /\ currentStep' = "review"
            /\ SelectorAfter(currentStep, "review", sourceText, sourceName, sourceUrl)
            /\ UNCHANGED <<cards, sourceName, sourceText, sourceUrl, importResult>>
       ELSE UNCHANGED <<pageVars, selectorVars>>
    /\ UNCHANGED <<slotVars, windowVars, invocations, backendVars>>

\* the cards of an import at the positions that do not error, in order
Accepted(cs, failed) ==
    LET kept == SelectSeq([k \in 1..Len(cs) |-> k], LAMBDA k : k \notin failed)
    IN [j \in 1..Len(kept) |-> cs[kept[j]]]

\* the result of importApprovedCards when the cards at the positions in
\* failed error: they are neither imported nor duplicates, and errors lists
\* them (one entry per card, standing for its message)
ImportResult(cs, st, failed) ==
    LET done == ImportInto(Accepted(cs, failed), st)
    IN [store |-> done.store,
        importedCount |-> done.importedCount,
        duplicateCount |-> done.duplicateCount,
        errors |-> SelectSeq([k \in 1..Len(cs) |-> k], LAMBDA k : k \in failed)]

\* a continuation of handleImport that stores the two counts crosswise
ImportAnsweredSwapsCounts(result) ==
    /\ store' = result.store
    /\ importResult' = [imported |-> result.duplicateCount,
                        duplicates |-> result.importedCount]
    /\ rpcs' = Append(Tail(rpcs), Rpc("clear", "", <<>>, NoCards, "import"))
    /\ UNCHANGED <<currentStep, cards, sourceName, sourceText, sourceUrl, error,
                   slotVars, windowVars, selectorVars, invocations, snapshot>>

\* handleImport's continuation on a result: it stores the two counts and
\* issues the awaited clearSession
ImportAnswered(result) ==
    /\ store' = result.store
    /\ importResult' = [imported |-> result.importedCount,
                        duplicates |-> result.duplicateCount]
    /\ rpcs' = Append(Tail(rpcs), Rpc("clear", "", <<>>, NoCards, "import"))
    /\ UNCHANGED <<currentStep, cards, sourceName, sourceText, sourceUrl, error,
                   slotVars, windowVars, selectorVars, invocations, snapshot>>

\* what the done view renders of the import: the two counts of importResult
doneView == [imported |-> importResult.imported, duplicates |-> importResult.duplicates]

\* the results the store can give for the import at the head of the queue
ImportResults ==
    {ImportResult(Head(rpcs).cards, store, failed) :
        failed \in {f \in SUBSET (1..Len(Head(rpcs).cards)) : Cardinality(f) <= MaxErrors}}

\* importApprovedCards answered with a result
ImportApprovedCardsOk ==
    /\ rpcs # <<>> /\ Head(rpcs).kind = "import"
    /\ \E result \in ImportResults : ImportAnswered(result)

\* ImportApprovedCardsFailed whose catch block also clears the session
ImportApprovedCardsFailedClears ==
    /\ rpcs # <<>> /\ Head(rpcs).kind = "import"
    /\ rpcs' = Append(Tail(rpcs), Rpc("clear", "", <<>>, NoCards, "none"))
    /\ error' = ImportError
    /\ currentStep' = "review"
    /\ SelectorAfter(currentStep, "review", sourceText, sourceName, sourceUrl)
    /\ UNCHANGED <<cards, sourceName, sourceText, sourceUrl, importResult,
                   slotVars, windowVars, invocations, backendVars>>

\* importApprovedCards rejected: the catch block of handleImport
ImportApprovedCardsFailed ==
    /\ rpcs # <<>> /\ Head(rpcs).kind = "import"
    /\ rpcs' = Tail(rpcs)
    /\ error' = ImportError
    /\ currentStep' = "review"
    /\ SelectorAfter(currentStep, "review", sourceText, sourceName, sourceUrl)
    /\ UNCHANGED <<cards, sourceName, sourceText, sourceUrl, importResult,
                   slotVars, windowVars, invocations, backendVars>>

Backend ==
    \/ SaveSessionOk \/ SaveSessionFailed
    \/ ClearSessionOk \/ ClearSessionFailed
    \/ ImportApprovedCardsOk \/ ImportApprovedCardsFailed

\* ----------------------------------------------------------- specification
Next ==
    \/ SourceSelectorHandleGenerate
    \/ BridgeResponse
    \/ OnGenerate
    \/ Timeout
    \/ CardApprove \/ CardReject \/ CardReset
    \/ approveAll \/ rejectAll
    \/ handleImport
    \/ handleNewSession
    \/ Backend

Spec == Init /\ [][Next]_vars


\* The generation side of the workflow on its own: the source form, the
\* bridge invocation with its response, completion callback and timer, New
\* Session, and the session RPCs that generation and New Session issue.  The
\* review and import handlers are left out, so a session that has reached
\* review stays as generated until New Session.  Every behaviour of
\* GenerationSpec is a behaviour of Spec.
GenerationNext ==
    \/ SourceSelectorHandleGenerate
    \/ BridgeResponse
    \/ OnGenerate
    \/ Timeout
    \/ handleNewSession
    \/ SaveSessionOk \/ SaveSessionFailed
    \/ ClearSessionOk \/ ClearSessionFailed

GenerationSpec == Init /\ [][GenerationNext]_vars

\* The review side of the workflow on its own: a resumed session is
\* reviewed, committed and abandoned; the card controls, approve all and
\* reject all, Import, New Session and the backend's answers.  Generation is
\* left out, so the workflow stays in source once New Session has been
\* pressed.  Every behaviour of ReviewSpec is a behaviour of Spec.
ReviewNext ==
    \/ CardApprove \/ CardReject \/ CardReset
    \/ approveAll \/ rejectAll
    \/ handleImport
    \/ handleNewSession
    \/ Backend

ReviewSpec == Init /\ [][ReviewNext]_vars

\* one session from the form to the commit: generation, the bulk controls
\* and Import, with the saves they issue
SessionNext ==
    \/ SourceSelectorHandleGenerate
    \/ BridgeResponse
    \/ OnGenerate
    \/ Timeout
    \/ approveAll \/ rejectAll
    \/ handleImport
    \/ SaveSessionOk \/ SaveSessionFailed

SessionSpec == Init /\ [][SessionNext]_vars

\* the generation side with a second instance of the page in the window
TwoPagesNext ==
    \/ SourceSelectorHandleGenerate
    \/ BridgeResponse
    \/ OnGenerate
    \/ Timeout
    \/ SaveSessionOk \/ SaveSessionFailed
    \/ OtherMount
    \/ OtherGenerate
    \/ OnGenerateAtOther
    \/ OtherOnGenerate

TwoPagesSpec == Init /\ [][TwoPagesNext]_vars

\* ------------------------------------------------------- step vocabulary
\* "empty or whitespace-only", stated without the code's trim
IsBlank(t) == \A k \in 1..Len(t) : t[k] = " "

SlotEmpty == pendingGenerateResolve = 0 /\ pendingGenerateReject = 0

Outstanding == {i \in 1..Len(invocations) : invocations[i].promise = "pending"}

\* the promise of invocation i is settled by this step
Settles(i) == invocations[i].promise = "pending" /\ invocations'[i].promise # "pending"
Fulfils(i) == invocations[i].promise = "pending" /\ invocations'[i].promise = "fulfilled"
Rejects(i) == invocations[i].promise = "pending" /\ invocations'[i].promise = "rejected"

\* this step is the completion callback of backend task i / the timer of i
CalledBack(i) == invocations[i].backend = "running" /\ invocations'[i].backend = "completed"
TimerFires(i) == invocations[i].timer = "armed" /\ invocations'[i].timer = "fired"

\* this step is a press of Generate on the form f
Submits(f) ==
    /\ currentStep = "source"
    /\ selectorError' = NoText \/ Len(invocations') = Len(invocations) + 1
    /\ \/ GenerateRefused(f.text, f.name, f.url)
       \/ GenerateDispatched(f.text, f.name, f.url)

\* ------------------------------------------------------------------ claims

\* C1: every generation invocation gets exactly one outcome; the timer is the
\* last resort, so an invocation whose 120 second timer has fired has had its
\* outcome (its promise is settled) and the workflow is not left waiting.
C1_OutcomeForEveryInvocation ==
    \A i \in 1..Len(invocations) :
        invocations[i].timer = "fired" => invocations[i].promise # "pending"

\* C2: the timer of an acknowledged invocation that got no completion rejects
\* that invocation with the timeout message and empties the slot, and a
\* completion callback that arrives after the invocation's timer has fired
\* changes neither currentStep, cards, error nor the persisted snapshot.
C2_TimeoutThenLateCompletionIsNoOp ==
    [][\A i \in 1..Len(invocations) :
          /\ (TimerFires(i) /\ invocations[i].backend = "running"
                  /\ invocations[i].promise = "pending")
                => (/\ invocations'[i].promise = "rejected"
                    /\ error' = TimedOut
                    /\ pendingGenerateResolve' = 0
                    /\ pendingGenerateReject' = 0)
          /\ (CalledBack(i) /\ invocations[i].timer = "fired")
                => UNCHANGED <<currentStep, cards, error, snapshot>>]_vars

\* C3: every step that settles an invocation leaves the slot empty, and a
\* completion callback that finds the slot empty leaves it empty and changes
\* none of currentStep, cards, error, sourceText, sourceName.
C3_ResolutionIdempotent ==
    [][\A i \in 1..Len(invocations) :
          /\ Settles(i) => (pendingGenerateResolve' = 0 /\ pendingGenerateReject' = 0)
          /\ (CalledBack(i) /\ SlotEmpty)
                => (/\ pendingGenerateResolve' = 0
                    /\ pendingGenerateReject' = 0
                    /\ UNCHANGED <<currentStep, cards, error, sourceText, sourceName>>)]_vars

\* a completion callback has been made after the timeout settled the only
\* invocation
C3_Witness ==
    /\ Len(invocations) = 1
    /\ invocations[1].promise = "rejected"
    /\ invocations[1].backend = "completed"
    /\ error = TimedOut
    /\ SlotEmpty

\* C4: at most one invocation is outstanding, and only while the workflow is
\* in generating.
C4_SingleOutstandingInvocation ==
    /\ Cardinality(Outstanding) <= 1
    /\ Outstanding # {} => currentStep = "generating"

\* C5: once the workflow is back in source with an invocation still pending,
\* the completion or timeout that settles that invocation changes nothing:
\* currentStep, cards and error keep their values and no saveSession is issued.
C5_AbandonedInvocationSettlesAsNoOp ==
    [][\A i \in 1..Len(invocations) :
          (Settles(i) /\ currentStep = "source")
              => UNCHANGED <<currentStep, cards, error, rpcs>>]_vars

\* C6: currentStep changes only along the edges of the workflow.
StepEdges ==
    {<<"source", "generating">>, <<"generating", "review">>, <<"generating", "source">>,
     <<"review", "importing">>, <<"importing", "done">>, <<"importing", "review">>}
    \cup {<<st, "source">> : st \in Steps}

C6_StepsFollowEdges ==
    [][currentStep' # currentStep => <<currentStep, currentStep'>> \in StepEdges]_vars

\* C7 as stated: a press of Generate with a non-empty text moves the workflow
\* to generating.
C7_NonEmptyTextStartsGeneration ==
    [][\A f \in Forms :
          (f.text # <<>> /\ Submits(f)) => currentStep' = "generating"]_vars

\* C7: a press of Generate with a text that has a character other than
\* whitespace moves the workflow from source to generating and sends one
\* generate_flashcards command with that text.
C7_NonBlankTextStartsGeneration ==
    [][\A f \in Forms :
          (~IsBlank(f.text) /\ Submits(f))
              => (/\ currentStep = "source"
                  /\ currentStep' = "generating"
                  /\ Len(invocations') = Len(invocations) + 1
                  /\ invocations'[Len(invocations')].text = f.text
                  /\ invocations'[Len(invocations')].backend = "sent"
                  /\ sourceText' = f.text)]_vars

\* the padded text has been submitted and its command is on its way
C7_Witness ==
    /\ currentStep = "generating"
    /\ sourceText = <<" ", "a", " ">>
    /\ invocations # <<>>
    /\ invocations[Len(invocations)].text = <<" ", "a", " ">>
    /\ invocations[Len(invocations)].backend = "sent"

\* C8: a press of Generate with an empty or whitespace-only text changes only
\* the selector's inline error: no step change, no command, no RPC, and
\* sourceText, sourceName and cards keep their values.
C8_BlankTextRefused ==
    [][\A f \in Forms :
          (IsBlank(f.text) /\ Submits(f))
              => (/\ selectorError' = NoText
                  /\ currentStep' = "source"
                  /\ UNCHANGED <<pageVars, slotVars, invocations, rpcs, backendVars>>)]_vars

\* a whitespace-only text has been refused
C8_Witness ==
    /\ currentStep = "source"
    /\ textInput = <<" ">>
    /\ selectorError = NoText

C10_FailureReturnsToSource ==
    [][\A i \in 1..Len(invocations) :
          (Rejects(i) /\ currentStep = "generating")
              => (/\ currentStep' = "source"
                  /\ Truthy(error')
                  /\ sourceText' = invocations[Len(invocations)].text
                  /\ sourceName' = invocations[Len(invocations)].name
                  /\ textInput' = sourceText'
                  /\ selectorSourceName' = sourceName'
                  /\ cards' = cards)]_vars

\* the padded, named text has timed out and fills the source form again
C10_Witness ==
    /\ currentStep = "source"
    /\ error = TimedOut
    /\ sourceText = <<" ", "a", " ">>
    /\ sourceName = "doc"
    /\ textInput = sourceText
    /\ selectorSourceName = sourceName

\* C11: an error envelope rejects the invocation at once with the envelope's
\* error and empties the slot, and afterwards neither the timer of that
\* invocation nor a completion callback for it changes the page or the slot.
C11_ErrorEnvelopeSettlesForGood ==
    [][\A i \in 1..Len(invocations) :
          /\ (invocations[i].promise = "pending" /\ BridgeResponseError(i))
                => (/\ invocations'[i].promise = "rejected"
                    /\ error' = ImmediateError
                    /\ pendingGenerateResolve' = 0
                    /\ pendingGenerateReject' = 0)
          /\ (invocations[i].backend = "refused" /\ (TimerFires(i) \/ CalledBack(i)))
                => UNCHANGED <<pageVars, slotVars>>]_vars

\* the positions of the Approved cards, and the cards at them in order
ApprovedPositions(cs) == {k \in 1..Len(cs) : cs[k].status = Approved}

ApprovedInOrder(cs) ==
    [m \in 1..Cardinality(ApprovedPositions(cs)) |->
        cs[CHOOSE k \in ApprovedPositions(cs) :
              Cardinality({h \in ApprovedPositions(cs) : h <= k}) = m]]

ImportRpcs(q) == {m \in 1..Len(q) : q[m].kind = "import"}

\* C12: a press of Import in review with no Approved card changes neither
\* currentStep nor cards, issues no RPC and sets an error message; with an
\* Approved card it moves the workflow to importing and issues exactly one
\* importApprovedCards RPC.
C12_CommitNeedsApprovedCard ==
    [][(currentStep = "review" /\ handleImport)
          => IF ApprovedPositions(cards) = {}
             THEN /\ currentStep' = "review"
                  /\ rpcs' = rpcs
                  /\ cards' = cards
                  /\ Truthy(error')
             ELSE /\ currentStep' = "importing"
                  /\ cards' = cards
                  /\ Len(rpcs') = Len(rpcs) + 1
                  /\ SubSeq(rpcs', 1, Len(rpcs)) = rpcs
                  /\ rpcs'[Len(rpcs')].kind = "import"]_vars

\* Import has been refused: the session is in review without an Approved
\* card and shows the message
C12_Witness ==
    /\ currentStep = "review"
    /\ cards # NoCards
    /\ ApprovedPositions(cards) = {}
    /\ error = NothingApproved

\* C13: the cards of the import RPC are the Approved cards of the session at
\* the press of Import, each of them once and in the session's order.
C13_ImportCarriesApprovedCards ==
    [][(currentStep = "review" /\ currentStep' = "importing")
          => (/\ Len(rpcs') = Len(rpcs) + 1
              /\ rpcs'[Len(rpcs')].kind = "import"
              /\ rpcs'[Len(rpcs')].cards = ApprovedInOrder(cards))]_vars

\* an import is in flight for a session that also holds a card that is not
\* Approved
C13_Witness ==
    /\ currentStep = "importing"
    /\ ApprovedPositions(cards) # {}
    /\ ApprovedPositions(cards) # 1..Len(cards)
    /\ \E m \in ImportRpcs(rpcs) : rpcs[m].cards = ApprovedInOrder(cards)

\* C14: the workflow leaves importing for review only when the import RPC
\* itself failed, and it enters done from importing with the returned counts
\* in importResult.
C14_ImportResultLeadsToDone ==
    [][/\ (currentStep = "importing" /\ currentStep' = "review")
            => ImportApprovedCardsFailed
       /\ (currentStep = "importing" /\ currentStep' = "done")
            => importResult' # NoResult]_vars

\* C15: whenever the workflow is in done there is no persisted snapshot.
C15_NoSnapshotInDone == currentStep = "done" => snapshot = <<>>

\* C16: when the import RPC fails while the workflow is in importing, the
\* workflow moves to review with a message in error, cards keep their value,
\* no clearSession is issued, the snapshot is present and untouched, and the
\* Approved cards are the ones the failed RPC carried.
C16_ImportFailureKeepsSession ==
    [][(currentStep = "importing" /\ ImportApprovedCardsFailed)
          => (/\ currentStep' = "review"
              /\ Truthy(error')
              /\ cards' = cards
              /\ rpcs' = Tail(rpcs)
              /\ snapshot' = snapshot
              /\ snapshot # <<>>
              /\ ApprovedInOrder(cards') = Head(rpcs).cards)]_vars

\* the import has failed and the session is back in review with its
\* Approved card and its snapshot
C16_Witness ==
    /\ currentStep = "review"
    /\ error = ImportError
    /\ ApprovedPositions(cards) # {}
    /\ snapshot # <<>>
    /\ rpcs = <<>>

\* C17: New Session moves the workflow to source, empties cards, sourceName,
\* sourceText, sourceUrl, error and importResult, and issues clearSession.
C17_NewSessionResetsEveryField ==
    [][(currentStep # "source" /\ handleNewSession)
          => (/\ currentStep' = "source"
              /\ cards' = NoCards
              /\ sourceName' = ""
              /\ sourceText' = <<>>
              /\ sourceUrl' = ""
              /\ error' = null
              /\ importResult' = NoResult
              /\ Len(rpcs') = Len(rpcs) + 1
              /\ rpcs'[Len(rpcs')].kind = "clear")]_vars

\* the positions of the cards of a status
Positions(cs, st) == {k \in 1..Len(cs) : cs[k].status = st}

\* cs and ds are the same cards up to their status
SameCards(cs, ds) ==
    /\ Len(cs) = Len(ds)
    /\ \A k \in 1..Len(cs) : [cs[k] EXCEPT !.status = Pending] = [ds[k] EXCEPT !.status = Pending]

\* C18: approve all leaves every card Approved whatever its status was, and
\* reject all leaves every card Rejected; the cards are otherwise the same,
\* the count of the new status is the number of cards and the other two
\* counts are 0.
C18_BulkUpdateSetsEveryCard ==
    [][/\ approveAll
            => (/\ SameCards(cards, cards')
                /\ Positions(cards', Approved) = 1..Len(cards)
                /\ CountStatus(cards', Approved) = Len(cards)
                /\ CountStatus(cards', Pending) = 0
                /\ CountStatus(cards', Rejected) = 0)
       /\ rejectAll
            => (/\ SameCards(cards, cards')
                /\ Positions(cards', Rejected) = 1..Len(cards)
                /\ CountStatus(cards', Rejected) = Len(cards)
                /\ CountStatus(cards', Pending) = 0
                /\ CountStatus(cards', Approved) = 0)]_vars

\* approve all has been pressed on the resumed session, whose second card
\* was Rejected: both cards are Approved and the save carrying them is the
\* only RPC in flight
C18_Witness ==
    /\ currentStep = "review"
    /\ Len(cards) >= 2
    /\ Positions(cards, Approved) = 1..Len(cards)
    /\ Len(rpcs) = 1
    /\ rpcs[1].kind = "save" /\ rpcs[1].cards = cards
    /\ snapshot # <<>> /\ Positions(snapshot[1].cards, Rejected) # {}

\* this step is one of the five status changes of the review
StatusChange == CardApprove \/ CardReject \/ CardReset \/ approveAll \/ rejectAll

\* C19: every status change in review issues exactly one saveSession that
\* nothing awaits, carrying the cards as they are after the change with the
\* page's sourceName and sourceText; when such a save fails, currentStep,
\* cards and error keep their values.
C19_StatusChangeSavesSession ==
    [][/\ (currentStep = "review" /\ StatusChange)
            => (/\ Len(rpcs') = Len(rpcs) + 1
                /\ SubSeq(rpcs', 1, Len(rpcs)) = rpcs
                /\ rpcs'[Len(rpcs')] = Rpc("save", sourceName, sourceText, cards', "none"))
       /\ (rpcs # <<>> /\ Head(rpcs).kind = "save" /\ Head(rpcs).awaitedBy = "none"
                /\ SaveSessionFailed)
            => UNCHANGED <<currentStep, cards, error>>]_vars

\* the save of a status change has failed: the session is in review without
\* an error, nothing is in flight and the snapshot still has the old statuses
C19_Witness ==
    /\ currentStep = "review"
    /\ error = null
    /\ rpcs = <<>>
    /\ snapshot # <<>>
    /\ snapshot[1].cards # cards
    /\ SameCards(snapshot[1].cards, cards)

\* C20: a saveSession that fails changes neither currentStep nor error, so
\* the failure of the save that follows a generation leaves the workflow in
\* review with the generated cards.
C20_SaveFailureIsSilent ==
    [][(rpcs # <<>> /\ Head(rpcs).kind = "save" /\ SaveSessionFailed)
          => UNCHANGED <<currentStep, cards, error>>]_vars

\* ---------------------------------------------------------------- C21
\* the page as the component's field initialisers leave it for a session prop
MountedFrom(session) ==
    /\ currentStep = (IF session.hasSession THEN "review" ELSE "source")
    /\ cards = (IF session.hasSession THEN session.cards ELSE NoCards)
    /\ sourceName = session.sourceName
    /\ sourceText = session.sourceText

Resumable(response) == response.ok /\ response.hasSession

\* C21: at startup (the first state of every behaviour), whatever loadSession
\* answered: a failure or hasSession = false starts the workflow in source
\* with no cards and no error; the workflow starts in review exactly when the
\* response has hasSession = true, and then with the cards of the response,
\* statuses included.
C21_StartupFollowsLoad ==
    /\ \E response \in LoadSessionResponses : MountedFrom(load(response))
    /\ \A response \in LoadSessionResponses :
           MountedFrom(load(response)) =>
               /\ ~Resumable(response) =>
                      currentStep = "source" /\ cards = NoCards /\ error = null
               /\ currentStep = "review" <=> Resumable(response)
               /\ Resumable(response) => cards = response.cards
    /\ [][TRUE]_vars

\* the page has just been mounted on a persisted session and shows its cards
C21_Witness ==
    /\ currentStep = "review"
    /\ rpcs = <<>>
    /\ invocations = <<>>
    /\ snapshot # <<>>
    /\ cards = snapshot[1].cards
    /\ \E k \in DOMAIN cards : cards[k].status = Approved

\* ---------------------------------------------------------------- C22
SaveInFlight == \E k \in DOMAIN rpcs : rpcs[k].kind = "save"

\* C22: saves take effect in issue order, so in review, once no saveSession
\* is in flight, a snapshot is persisted and its cards are the in-memory
\* cards (a load after shutdown returns the most recent state).
C22_QuiescentSnapshotIsCurrent ==
    (currentStep = "review" /\ ~SaveInFlight) =>
        (snapshot # <<>> /\ snapshot[1].cards = cards)

Statuses == {Pending, Approved, Rejected}

\* C26: in every reachable state every card of the session has status
\* Pending (0), Approved (1) or Rejected (2), whether the cards came from a
\* generation, a resumed session, a per-card update or a bulk update.
C26_StatusIsOneOfThree ==
    \A k \in DOMAIN cards : cards[k].status \in Statuses

\* a card of the resumed session has been reset next to a Rejected one
C26_Witness ==
    /\ currentStep = "review"
    /\ SaveInFlight
    /\ \E k \in DOMAIN cards : cards[k].status = Pending
    /\ \E k \in DOMAIN cards : cards[k].status = Rejected

\* ---------------------------------------------------------------- C27
CardsWith(st) == {k \in DOMAIN cards : cards[k].status = st}

\* C27: in every reachable state the three derived counts add up to the
\* number of cards, and each of them is the number of cards that hold its
\* status now (so the guard of Import reads the current cards).
C27_CountsMatchCards ==
    /\ pendingCount + approvedCount + rejectedCount = Len(cards)
    /\ pendingCount = Cardinality(CardsWith(Pending))
    /\ approvedCount = Cardinality(CardsWith(Approved))
    /\ rejectedCount = Cardinality(CardsWith(Rejected))

\* every card of a session of several cards has been approved
C27_Witness ==
    /\ currentStep = "review"
    /\ Len(cards) > 1
    /\ approvedCount = Len(cards)
    /\ pendingCount = 0 /\ rejectedCount = 0

\* ---------------------------------------------------------------- C28
\* C28: when importApprovedCards returns a result with a non-empty errors
\* list, the batch is not treated as failed (no error is raised, the
\* workflow goes on to done) and the errors are shown to the user as a list
\* next to the imported and duplicate counts.
C28_ImportErrorsAreSurfaced ==
    [][(rpcs # <<>> /\ Head(rpcs).kind = "import") =>
          \A result \in ImportResults :
              (result.errors # <<>> /\ ImportAnswered(result)) =>
                  /\ error' = error
                  /\ doneView'.imported = result.importedCount
                  /\ doneView'.duplicates = result.duplicateCount
                  /\ "errors" \in DOMAIN doneView'
                  /\ doneView'.errors = result.errors]_vars

\* ---------------------------------------------------------------- C29
\* every card of the batch is already in the store
AllPresent(cs, st) == \A k \in DOMAIN cs : cs[k].front \in st

\* C29: a card whose content is already in the store counts as a duplicate
\* and is not added again: when an import of n approved cards that are all
\* in the store is answered without errors, the page is told imported = 0
\* and duplicates = n, and the store is unchanged.
C29_SecondImportIsAllDuplicates ==
    [][(rpcs # <<>> /\ Head(rpcs).kind = "import"
           /\ AllPresent(Head(rpcs).cards, store)) =>
          \A result \in ImportResults :
              (result.errors = <<>> /\ ImportAnswered(result)) =>
                  /\ importResult'.imported = 0
                  /\ importResult'.duplicates = Len(Head(rpcs).cards)
                  /\ store' = store]_vars

\* the approved cards have been imported a second time: all are duplicates
C29_Witness ==
    /\ store # {}
    /\ approvedCount > 0
    /\ AllPresent(ApprovedInOrder(cards), store)
    /\ importResult.imported = 0
    /\ importResult.duplicates = approvedCount

\* ---------------------------------------------------------------- C30
\* invocation i can still be settled: its bridge response is to come, or the
\* slot holds it and a completion callback is to come, or its timer is armed
\* and will find the slot set
CanBeSettled(i) ==
    /\ invocations[i].promise = "pending"
    /\ \/ invocations[i].backend = "sent"
       \/ /\ pendingGenerateResolve = i
          /\ \E h \in 1..Len(invocations) : invocations[h].backend \in {"sent", "running"}
       \/ invocations[i].timer = "armed" /\ pendingGenerateResolve # 0

ImportOutstanding ==
    \E k \in DOMAIN rpcs :
        \/ rpcs[k].kind = "import"
        \/ rpcs[k].kind = "clear" /\ rpcs[k].awaitedBy = "import"

GeneratingHasLiveInvocation ==
    currentStep = "generating" => \E i \in 1..Len(invocations) : CanBeSettled(i)

ImportingHasLiveImport ==
    currentStep = "importing" => ImportOutstanding

\* C30: the workflow is in generating only while an invocation can still be
\* settled by a response, a completion callback or a timer, and in
\* importing only while the import (the RPC or the clearSession that
\* follows it) is outstanding.
C30_BusyStepsHaveWorkInFlight ==
    GeneratingHasLiveInvocation /\ ImportingHasLiveImport

\* ---------------------------------------------------------------- C31
\* C31: two page instances in one window do not interfere: the completion
\* of a task this page asked for settles this page's invocation (when the
\* slot still holds it) and neither settles nor empties the slot of the
\* other instance.
C31_CompletionStaysWithItsInstance ==
    [][\A i \in 1..Len(invocations) :
          CalledBack(i) =>
              /\ other' = other
              /\ (invocations[i].promise = "pending" /\ pendingGenerateResolve = i)
                    => Settles(i)]_vars

\* ---------------------------------------------------------------- C32
\* C32: the 120 second timer of an invocation that is already settled does
\* nothing when it fires: it leaves the pending slot (which may belong to a
\* later invocation) and the page as they are.
C32_SpentTimerLeavesSlotAlone ==
    [][\A i \in 1..Len(invocations) :
          (TimerFires(i) /\ invocations[i].promise # "pending")
              => UNCHANGED <<slotVars, pageVars>>]_vars

\* ---------------------------------------------------------------- C33
\* C33: when the completion of backend task i fulfils an invocation (the
\* workflow enters review with the delivered cards), the invocation is the
\* one that asked for task i, and its text and name are the session's
\* sourceText and sourceName.
C33_CompletionReachesItsRequest ==
    [][\A i \in 1..Len(invocations) :
          (CalledBack(i) /\ \E j \in 1..Len(invocations) : Fulfils(j))
              => /\ Fulfils(i)
                 /\ sourceText' = invocations[i].text
                 /\ sourceName' = invocations[i].name]_vars

\* ---------------------------------------------------------------- C34
\* an id that no card has
AbsentId == <<0, 0>>

\* C34: a per-card update changes the status of the card with the matching
\* id and nothing else (length, order, the other fields of every card and
\* the status of the other cards stay); an update for an id that no card
\* has changes no card; approve all and reject all change only statuses.
C34_UpdateChangesOnlyThatStatus ==
    [][/\ \A st \in Statuses : mapStatus(cards, AbsentId, st) = cards
       /\ (currentStep = "review" /\ cards' # cards) =>
             /\ \A k \in DOMAIN cards : \A st \in Statuses :
                    handleCardUpdate(cards[k].id, st) =>
                        /\ Len(cards') = Len(cards)
                        /\ cards'[k] = [cards[k] EXCEPT !.status = st]
                        /\ \A h \in DOMAIN cards : h # k => cards'[h] = cards[h]
             /\ (approveAll \/ rejectAll) => SameCards(cards, cards')]_vars

\* one card of the saved session has had its status changed by a per-card
\* control and every other card is as it was saved
C34_Witness ==
    /\ currentStep = "review"
    /\ snapshot # <<>>
    /\ Len(cards) = Len(snapshot[1].cards)
    /\ Len(cards) >= 2
    /\ \E k \in DOMAIN cards :
           /\ cards[k].status = Pending
           /\ cards[k] # snapshot[1].cards[k]
           /\ cards[k] = [snapshot[1].cards[k] EXCEPT !.status = Pending]
           /\ \A h \in DOMAIN cards : h # k => cards[h] = snapshot[1].cards[h]

\* ---------------------------------------------------------------- C35
PerCardMoves ==
    {<<Pending, Approved>>, <<Pending, Rejected>>,
     <<Approved, Pending>>, <<Rejected, Pending>>}

Move(k) == <<cards[k].status, cards'[k].status>>

\* C35: a per-card control moves a card only Pending -> Approved,
\* Pending -> Rejected, Approved -> Pending or Rejected -> Pending and leaves
\* the other cards' statuses alone; a card of the session goes directly from
\* Approved to Rejected or back only by approve all or reject all.
C35_PerCardMovesPassThroughPending ==
    [][(currentStep = "review" /\ cards' # cards /\ SameCards(cards, cards')) =>
          /\ (CardApprove \/ CardReject \/ CardReset) =>
                 \A k \in DOMAIN cards :
                     Move(k) \in PerCardMoves \/ cards'[k].status = cards[k].status
          /\ (\E k \in DOMAIN cards :
                  Move(k) \in {<<Approved, Rejected>>, <<Rejected, Approved>>})
                => (approveAll \/ rejectAll)]_vars

\* a card that was saved as Pending has been approved by its own control
\* while another card is Approved too
C35_Witness ==
    /\ currentStep = "review"
    /\ snapshot # <<>>
    /\ SameCards(snapshot[1].cards, cards)
    /\ \E k \in DOMAIN cards :
           /\ snapshot[1].cards[k].status = Pending
           /\ cards[k].status = Approved
           /\ \A h \in DOMAIN cards : h # k => cards[h] = snapshot[1].cards[h]
    /\ \E k \in DOMAIN cards : cards[k].status = Rejected

\* ---------------------------------------------------------------- C36
\* the RPC at the head of the queue belongs to a handleImport in progress
ImportAnswerDue ==
    /\ rpcs # <<>>
    /\ \/ Head(rpcs).kind = "import"
       \/ Head(rpcs).kind = "clear" /\ Head(rpcs).awaitedBy = "import"

\* C36: once New Session has put the workflow in source, the return of an
\* import that was outstanding (its result, its failure, or the answer to
\* the clearSession that follows its result) changes neither currentStep
\* nor importResult nor error.
C36_AbandonedImportReturnsAsNoOp ==
    [][(currentStep = "source" /\ ImportAnswerDue /\ Backend)
          => UNCHANGED <<currentStep, importResult, error>>]_vars

\* ---------------------------------------------------------------- C37
\* C37: after New Session the persisted snapshot becomes absent and stays
\* so until the next generation: whenever the workflow is in source and no
\* RPC is in flight any more (the clearSession of New Session and any
\* auto-save issued before it have been answered), there is no snapshot.
C37_NoSnapshotOnceNewSessionSettled ==
    (currentStep = "source" /\ rpcs = <<>>) => snapshot = <<>>

\* ---------------------------------------------------------------- C38
\* C38: a completion carrying neither an error nor cards fulfils the
\* invocation in the slot with no cards and the workflow enters review with
\* zero cards; in review with zero cards approve all and reject all leave
\* the cards as they are, Import is refused with the message and no RPC,
\* and no step enters importing.
C38_EmptyCompletionGivesEmptyReview ==
    [][/\ \A i \in 1..Len(invocations) :
             (/\ currentStep = "generating"
              /\ pendingGenerateResolve # 0
              /\ CalledBack(i)
              /\ invocations[pendingGenerateResolve].promise = "pending"
              /\ aiFlashcardsOnGenerate(i, NoOutcome))
                => (/\ Fulfils(pendingGenerateResolve)
                    /\ cards' = NoCards
                    /\ currentStep' = "review")
       /\ (currentStep = "review" /\ cards = NoCards)
             => (/\ currentStep' # "importing"
                 /\ (approveAll \/ rejectAll) => cards' = NoCards
                 /\ handleImport
                       => (error' = NothingApproved /\ rpcs' = rpcs
                             /\ currentStep' = "review"))]_vars

\* Import has been refused in the review of a generation that gave no cards
C38_Witness ==
    /\ currentStep = "review"
    /\ cards = NoCards
    /\ error = NothingApproved
    /\ \E i \in 1..Len(invocations) : invocations[i].promise = "fulfilled"
    /\ snapshot # <<>> /\ snapshot[1].cards = NoCards

\* ---------------------------------------------------------------- C39
\* C39: whenever the workflow is in done importResult is set (it holds the
\* counts of the import that led there), and whenever the workflow is in
\* source importResult is null.
C39_ImportResultMatchesStep ==
    /\ currentStep = "done" => importResult # NoResult
    /\ currentStep = "source" => importResult = NoResult

TypeOK ==
    /\ currentStep \in Steps
    /\ pendingGenerateResolve \in 0..Len(invocations)
    /\ pendingGenerateReject = pendingGenerateResolve
    /\ Len(cards) <= MaxCards \/ Len(cards) <= MaxLoadedCards

====
